---- MODULE Spec2Model ----
(***************************************************************************)
(* Buffer pool manager, CLOCK replacer and linear probe hash index of      *)
(* bustub.                                                                 *)
(*   src/src/buffer/buffer_pool_manager.cpp                                *)
(*   src/src/buffer/clock_replacer.cpp                                     *)
(*   src/src/container/hash/linear_probe_hash_table.cpp                    *)
(*   src/src/storage/page/hash_table_block_page.cpp                        *)
(*   src/src/storage/page/hash_table_header_page.cpp                       *)
(* Every public operation of the buffer pool is one action.  The value a   *)
(* call returns is an operator of the state it is called in (the ...Result *)
(* operators), so that "the call returns r" is a state predicate.  The     *)
(* disk manager and the Page class are collaborators whose code is not     *)
(* part of the sources at hand; they are modelled from the specification.  *)
(***************************************************************************)
EXTENDS Integers, Sequences, FiniteSets, TLC

\* ---------------------------------------------------------------- bounds
PoolSize     == 2   \* pool_size of the pool of Spec
DataPoolSize == 1   \* pool_size of the pool of SpecData, whose clients write
MaxPin       == 1   \* cap on pin_count_, so that FetchPage cannot count forever

INVALID_PAGE_ID == -1
NullPtr == -1       \* the nullptr a failed FetchPage / NewPage returns

DataVals == {0, 1}  \* a page image: zeroed, or written by a client

VARIABLES
    pool_size_,     \* BufferPoolManager::pool_size_
    pages_,         \* Page pages_[pool_size_]: page_id_, pin_count_, is_dirty_, data_
    page_table_,    \* std::unordered_map<page_id_t, frame_id_t>
    free_list_,     \* std::list<frame_id_t>
    bits_,          \* ClockReplacer::bits_: per frame {ref, in_replacer}
    hand_,          \* ClockReplacer::hand_
    sz_,            \* ClockReplacer::sz_
    disk,           \* DiskManager: the image of every page on disk
    next_page_id_,  \* DiskManager::next_page_id_
    reported        \* history: per page id << d >>, the image the pool was last told
                    \* of (zero when the page was created, the frame's image at a
                    \* successful dirty unpin, the image on disk when the page was
                    \* deleted or read in with nothing known), or << >> once a
                    \* client wrote the page without a dirty unpin since

VARIABLES
    thr,             \* threads inside FetchPageImpl: position and locals of each
    header_page_id_, \* LinearProbeHashTable::header_page_id_
    num_buckets_,    \* LinearProbeHashTable::num_buckets_
    num_blocks_,     \* LinearProbeHashTable::num_blocks_
    size_,           \* LinearProbeHashTable::size_
    table_latch_,    \* LinearProbeHashTable::table_latch_
    rwlatch_         \* Page::rwlatch_ of every frame the index latched

\* the state of the clients of the pool: threads and the hash index
clientVars == << thr, header_page_id_, num_buckets_, num_blocks_, size_,
                 table_latch_, rwlatch_ >>

vars == << pool_size_, pages_, page_table_, free_list_, bits_, hand_, sz_, disk,
           next_page_id_, reported, clientVars >>

bpmVars == << pool_size_, pages_, page_table_, free_list_, bits_, hand_, sz_, disk,
              next_page_id_ >>

Frames   == 0 .. (pool_size_ - 1)
\* the disk manager hands out one page id more than the pool has frames
MaxPages == pool_size_ + 1
PageIds  == 0 .. (MaxPages - 1)

\* ------------------------------------------------------------ Page (page.h)
EmptyPage ==
    [page_id |-> INVALID_PAGE_ID, pin_count |-> 0, is_dirty |-> FALSE, data |-> 0]

\* Page::ResetMemory: memset(data_, 0, PAGE_SIZE)
ResetMemory(page) == [page EXCEPT !.data = 0]

\* ------------------------------------------------------------ DiskManager
\* WritePage(page_id, data): a write under INVALID_PAGE_ID reaches no page.
WritePage(d, page_id, data) ==
    IF page_id \in DOMAIN d THEN [d EXCEPT ![page_id] = data] ELSE d

ReadPage(d, page_id) == d[page_id]

\* AllocatePage: return next_page_id_++
AllocatePage(next) == [page_id |-> next, next |-> next + 1]

\* ------------------------------------------------------------ ClockReplacer
ClockBits == [ref : {0, 1}, in_replacer : {0, 1}]

inc_hand(h, n) == (h + 1) % n

RECURSIVE VictimScan(_, _, _, _)
VictimScan(b, h, s, i) ==
    LET n == Cardinality(DOMAIN b) IN
    IF i > 2 * n
    THEN [found |-> FALSE, frame_id |-> NullPtr, bits |-> b, hand |-> h, sz |-> s]
    ELSE LET h2 == inc_hand(h, n) IN
         IF b[h2].in_replacer = 1 /\ b[h2].ref = 0
         THEN [found |-> TRUE, frame_id |-> h2,
               bits |-> [b EXCEPT ![h2] = [ref |-> 1, in_replacer |-> 0]],
               hand |-> h2, sz |-> s - 1]
         ELSE IF b[h2].ref = 1
              THEN VictimScan([b EXCEPT ![h2].ref = 0], h2, s, i + 1)
              ELSE VictimScan(b, h2, s, i + 1)

\* a Victim that gives up after one sweep
VictimOneSweep == VictimScan(bits_, hand_, sz_, Cardinality(DOMAIN bits_) + 1)

\* ClockReplacer::Victim on the current replacer state
Victim == VictimScan(bits_, hand_, sz_, 0)

\* an Unpin that leaves the frame out of the replacer
ReplacerUnpinForgets(b, s, frame_id) == [bits |-> b, sz |-> s]

\* ClockReplacer::Unpin(frame_id): the replacer state after the call
ReplacerUnpin(b, s, frame_id) ==
    IF b[frame_id].in_replacer = 1
    THEN [bits |-> b, sz |-> s]
    ELSE [bits |-> [b EXCEPT ![frame_id].in_replacer = 1], sz |-> s + 1]

\* a Pin that takes one off the size whether or not the frame is in the replacer
ReplacerPinAlways(b, s, frame_id) ==
    [bits |-> [b EXCEPT ![frame_id].in_replacer = 0], sz |-> s - 1]

\* ClockReplacer::Pin(frame_id): the replacer state after the call
ReplacerPin(b, s, frame_id) ==
    IF b[frame_id].in_replacer = 0
    THEN [bits |-> b, sz |-> s]
    ELSE [bits |-> [b EXCEPT ![frame_id].in_replacer = 0], sz |-> s - 1]

\* ------------------------------------------------------------ helpers
Back(list) == list[Len(list)]
PopBack(list) == SubSeq(list, 1, Len(list) - 1)
SeqRange(list) == {list[i] : i \in 1 .. Len(list)}

\* a page table that forgets to erase the replaced page
PageTableKeep(pt, page_id) == pt

\* page_table_.erase(page_id)
PageTableErase(pt, page_id) == [p \in (DOMAIN pt) \ {page_id} |-> pt[p]]

\* page_table_[page_id] = fid
PageTablePut(pt, page_id, fid) ==
    [p \in (DOMAIN pt) \cup {page_id} |-> IF p = page_id THEN fid ELSE pt[p]]

\* ------------------------------------------------------------ BufferPoolManager
\* BufferPoolManager::BufferPoolManager(pool_size, ...), over a fresh disk
InitPool(pool_size) ==
    /\ pool_size_ = pool_size
    /\ pages_ = [f \in 0 .. (pool_size - 1) |-> EmptyPage]
    /\ page_table_ = << >>
    /\ free_list_ = [i \in 1 .. pool_size |-> i - 1]
    /\ bits_ = [f \in 0 .. (pool_size - 1) |-> [ref |-> 0, in_replacer |-> 0]]
    /\ hand_ = 0
    /\ sz_ = 0
    /\ disk = [p \in 0 .. pool_size |-> 0]
    /\ next_page_id_ = 0
    /\ reported = [p \in 0 .. pool_size |-> << >>]

\* ReaderWriterLatch: reader_count_{0}, writer_entered_{false}
FreeLatch == [reader_count |-> 0, writer_entered |-> FALSE]

\* no thread is inside the pool and no index is built
NoClients ==
    /\ thr = << >>
    /\ header_page_id_ = INVALID_PAGE_ID
    /\ num_buckets_ = 0
    /\ num_blocks_ = 0
    /\ size_ = 0
    /\ table_latch_ = FreeLatch
    /\ rwlatch_ = << >>

Init == InitPool(PoolSize) /\ NoClients

InitData == InitPool(DataPoolSize) /\ NoClients

\* FetchPageImpl lines 63-71, NewPageImpl lines 143-153: the replacement frame,
\* from the free list first, else from the replacer; NullPtr when there is none
ReplacementFrame ==
    IF free_list_ # << >> THEN Back(free_list_)
    ELSE IF Victim.found THEN Victim.frame_id ELSE NullPtr

\* the free list and the replacer once the replacement frame is chosen
TakeReplacementFrame ==
    IF free_list_ # << >>
    THEN /\ free_list_' = PopBack(free_list_)
         /\ UNCHANGED << bits_, hand_, sz_ >>
    ELSE /\ bits_' = Victim.bits
         /\ hand_' = Victim.hand
         /\ sz_' = Victim.sz
         /\ UNCHANGED free_list_

\* an eviction that drops the replaced page without writing it back
EvictNoWriteBack(d, page) == d

\* FetchPageImpl / NewPageImpl: write the replaced page back if it is dirty
EvictWriteBack(d, page) ==
    IF page.is_dirty THEN WritePage(d, page.page_id, page.data) ELSE d

\* What FetchPageImpl(page_id) returns: the frame, or NullPtr
FetchPageResult(page_id) ==
    IF page_id \in DOMAIN page_table_ THEN page_table_[page_id] ELSE ReplacementFrame

\* FetchPageImpl, lines 73-84: the metadata of the frame after the page is read in
FetchedPage(old, page_id, d) ==
    [page_id |-> page_id, pin_count |-> 1, is_dirty |-> old.is_dirty,
     data |-> ReadPage(d, page_id)]

FetchPageImpl(page_id) ==
    /\ page_id < next_page_id_
    /\ UNCHANGED << pool_size_, next_page_id_, clientVars >>
    /\ IF page_id \in DOMAIN page_table_
       THEN LET fid == page_table_[page_id] IN
            /\ pages_[fid].pin_count < MaxPin
            /\ pages_' = [pages_ EXCEPT ![fid].pin_count = @ + 1]
            /\ UNCHANGED << page_table_, free_list_, bits_, hand_, sz_, disk, reported >>
       ELSE /\ TakeReplacementFrame
            /\ IF ReplacementFrame = NullPtr
               THEN UNCHANGED << pages_, page_table_, disk, reported >>
               ELSE LET fid == ReplacementFrame
                        old == pages_[fid]
                        d2  == EvictWriteBack(disk, old)
                    IN  /\ disk' = d2
                        /\ page_table_' =
                             PageTablePut(PageTableErase(page_table_, old.page_id),
                                          page_id, fid)
                        /\ pages_' = [pages_ EXCEPT ![fid] = FetchedPage(old, page_id, d2)]
                        /\ reported' =
                             IF reported[page_id] = << >>
                             THEN [reported EXCEPT ![page_id] = << ReadPage(d2, page_id) >>]
                             ELSE reported

\* an unpin that does not look at the pin count
UnpinRejectedNoPinCheck(page_id) == page_id \notin DOMAIN page_table_

\* UnpinPageImpl, lines 89-98: the two early returns
UnpinRejected(page_id) ==
    \/ page_id \notin DOMAIN page_table_
    \/ pages_[page_table_[page_id]].pin_count = 0

\* What UnpinPageImpl(page_id, is_dirty) returns
UnpinPageResult(page_id) == ~ UnpinRejected(page_id)

\* an unpin that assigns the dirty bit instead of or-ing it
UnpinDirtyAssign(old, is_dirty) == is_dirty

\* UnpinPageImpl, line 105: is_dirty_ |= is_dirty
UnpinDirty(old, is_dirty) == old \/ is_dirty

UnpinPageImpl(page_id, is_dirty) ==
    IF UnpinRejected(page_id)
    THEN UNCHANGED vars
    ELSE LET fid == page_table_[page_id]
             cnt == pages_[fid].pin_count - 1
             r   == IF cnt = 0 THEN ReplacerUnpin(bits_, sz_, fid)
                               ELSE [bits |-> bits_, sz |-> sz_]
         IN  /\ pages_' = [pages_ EXCEPT ![fid].pin_count = cnt,
                                         ![fid].is_dirty = UnpinDirty(@, is_dirty)]
             /\ bits_' = r.bits
             /\ sz_' = r.sz
             /\ reported' = IF is_dirty
                            THEN [reported EXCEPT ![page_id] = << pages_[fid].data >>]
                            ELSE reported
             /\ UNCHANGED << pool_size_, page_table_, free_list_, hand_, disk,
                             next_page_id_, clientVars >>

\* What FlushPageImpl(page_id) returns
FlushPageResult(page_id) ==
    IF page_id \notin DOMAIN page_table_ THEN FALSE
    ELSE IF ~ pages_[page_table_[page_id]].is_dirty THEN FALSE
    ELSE TRUE

FlushPageImpl(page_id) ==
    IF ~ FlushPageResult(page_id)
    THEN UNCHANGED vars
    ELSE LET fid == page_table_[page_id] IN
         /\ disk' = WritePage(disk, page_id, pages_[fid].data)
         /\ pages_' = [pages_ EXCEPT ![fid].is_dirty = FALSE]
         /\ UNCHANGED << pool_size_, page_table_, free_list_, bits_, hand_, sz_,
                         next_page_id_, reported, clientVars >>

\* What NewPageImpl returns: the frame, or NullPtr
NewPageResult == ReplacementFrame

\* a NewPage that leaves the old image in the frame's buffer
NewPageInitNoReset(old, page_id) ==
    [old EXCEPT !.page_id = page_id, !.pin_count = 1, !.is_dirty = TRUE]

\* NewPageImpl, lines 165-168: the metadata of the frame that holds the new page
NewPageInit(old, page_id) ==
    [ResetMemory(old) EXCEPT !.page_id = page_id, !.pin_count = 1, !.is_dirty = TRUE]

NewPageImpl ==
    /\ UNCHANGED << pool_size_, clientVars >>
    /\ TakeReplacementFrame
    /\ IF ReplacementFrame = NullPtr
       THEN UNCHANGED << pages_, page_table_, disk, next_page_id_, reported >>
       ELSE LET fid == ReplacementFrame
                old == pages_[fid]
                evict == free_list_ = << >>
                a   == AllocatePage(next_page_id_)
            IN  /\ next_page_id_ < MaxPages
                /\ disk' = IF evict THEN EvictWriteBack(disk, old) ELSE disk
                /\ next_page_id_' = a.next
                /\ page_table_' =
                     PageTablePut(IF evict THEN PageTableErase(page_table_, old.page_id)
                                         ELSE page_table_,
                                  a.page_id, fid)
                /\ pages_' = [pages_ EXCEPT ![fid] = NewPageInit(old, a.page_id)]
                /\ reported' = [reported EXCEPT ![a.page_id] = << 0 >>]

\* What DeletePageImpl(page_id) returns
DeletePageResult(page_id) ==
    IF page_id \notin DOMAIN page_table_ THEN TRUE
    ELSE IF pages_[page_table_[page_id]].pin_count > 0 THEN FALSE
    ELSE TRUE

\* a delete that does not hand the frame to the free list
DeleteFreeListForgotten(list, fid) == list

\* DeletePageImpl, line 192: the frame is handed to the free list
DeleteFreeList(list, fid) == Append(list, fid)

\* DeletePageImpl (DiskManager::DeallocatePage does not hand the page id out again)
DeletePageImpl(page_id) ==
    IF page_id \notin DOMAIN page_table_ \/ ~ DeletePageResult(page_id)
    THEN UNCHANGED vars
    ELSE LET fid == page_table_[page_id] IN
         /\ page_table_' = PageTableErase(page_table_, page_id)
         /\ pages_' = [pages_ EXCEPT ![fid].page_id = INVALID_PAGE_ID]
         /\ free_list_' = DeleteFreeList(free_list_, fid)
         /\ reported' = [reported EXCEPT ![page_id] = << disk[page_id] >>]
         /\ UNCHANGED << pool_size_, bits_, hand_, sz_, disk, next_page_id_,
                         clientVars >>

\* a flush of all pages that clears the dirty bits without writing
FlushAllNoWrite(d, pt, pgs) == d

\* FlushAllPagesImpl: the disk once every dirty page of the page table is written
FlushAllDisk(d, pt, pgs) ==
    [p \in DOMAIN d |->
        IF p \in DOMAIN pt /\ pgs[pt[p]].is_dirty THEN pgs[pt[p]].data ELSE d[p]]

\* FlushAllPagesImpl: the frames once every dirty page of the page table is written
FlushAllPages(pt, pgs) ==
    [f \in DOMAIN pgs |->
        IF pgs[f].is_dirty /\ \E p \in DOMAIN pt : pt[p] = f
        THEN [pgs[f] EXCEPT !.is_dirty = FALSE]
        ELSE pgs[f]]

FlushAllPagesImpl ==
    /\ disk' = FlushAllDisk(disk, page_table_, pages_)
    /\ pages_' = FlushAllPages(page_table_, pages_)
    /\ UNCHANGED << pool_size_, page_table_, free_list_, bits_, hand_, sz_,
                    next_page_id_, reported, clientVars >>

\* A holder of a pinned page writes into the frame it was handed (Page::GetData)
ClientWrite(fid, d) ==
    /\ pages_[fid].pin_count > 0
    /\ pages_[fid].data # d
    /\ pages_' = [pages_ EXCEPT ![fid].data = d]
    /\ reported' = [p \in DOMAIN reported |->
                      IF p = pages_[fid].page_id THEN << >> ELSE reported[p]]
    /\ UNCHANGED << pool_size_, page_table_, free_list_, bits_, hand_, sz_, disk,
                    next_page_id_, clientVars >>

Next ==
    \/ \E page_id \in PageIds : FetchPageImpl(page_id)
    \/ \E page_id \in PageIds, is_dirty \in BOOLEAN : UnpinPageImpl(page_id, is_dirty)
    \/ \E page_id \in PageIds : FlushPageImpl(page_id)
    \/ NewPageImpl
    \/ \E page_id \in PageIds : DeletePageImpl(page_id)
    \/ FlushAllPagesImpl

\* The pool of Spec: the calls of the buffer pool, page images left alone
Spec == Init /\ [][Next]_vars

NextData ==
    \/ Next
    \/ \E fid \in Frames, d \in DataVals : ClientWrite(fid, d)

\* The pool of SpecData: the same calls, and clients that write the pages they hold
SpecData == InitData /\ [][NextData]_vars

\* ------------------------------------------------------------ typing
TypeOK ==
    /\ pool_size_ \in {PoolSize, DataPoolSize}
    /\ pages_ \in [Frames -> [page_id : PageIds \cup {INVALID_PAGE_ID},
                              pin_count : 0 .. MaxPin, is_dirty : BOOLEAN,
                              data : DataVals]]
    /\ DOMAIN page_table_ \subseteq PageIds
    /\ \A p \in DOMAIN page_table_ : page_table_[p] \in Frames
    /\ SeqRange(free_list_) \subseteq Frames
    /\ bits_ \in [Frames -> ClockBits]
    /\ hand_ \in Frames
    /\ sz_ = Cardinality({f \in Frames : bits_[f].in_replacer = 1})
    /\ disk \in [PageIds -> DataVals]
    /\ next_page_id_ \in 0 .. MaxPages

\* ------------------------------------------------------------ properties
Resident(p) == p \in DOMAIN page_table_
FrameOf(p) == page_table_[p]
InPageTable(f) == \E p \in DOMAIN page_table_ : page_table_[p] = f
InFreeList(f) == f \in SeqRange(free_list_)
InReplacer(f) == bits_[f].in_replacer = 1

\* the free list is empty and every frame is pinned
Exhausted == free_list_ = << >> /\ \A f \in Frames : pages_[f].pin_count > 0

\* C1: a pinned page is never evicted: over every step, a frame whose pin count is
\* above 0 keeps its page, and the page table keeps that page in that frame.
C1_PinnedNeverEvicted ==
    [][\A f \in Frames :
          pages_[f].pin_count > 0 =>
            /\ pages_'[f].page_id = pages_[f].page_id
            /\ pages_[f].page_id \in DOMAIN page_table_'
            /\ page_table_'[pages_[f].page_id] = f]_vars

\* C2: in every state, a frame whose pin count is above 0 is not in the replacer.
C2_PinnedNotInReplacer ==
    \A f \in Frames : pages_[f].pin_count > 0 => ~ InReplacer(f)

\* C3: dirty data is never lost on eviction: as long as the image of a page that
\* the pool was told of (at a dirty unpin) is not overwritten by a client and the
\* page is not deleted, that image is in the page's frame while the page is
\* resident, and on disk under the page's own id once the page is evicted, so a
\* later fetch reads it back.
C3_DirtyDataNeverLost ==
    \A p \in PageIds :
        reported[p] # << >> =>
            IF Resident(p) THEN pages_[FrameOf(p)].data = reported[p][1]
                           ELSE disk[p] = reported[p][1]

\* a page written and unpinned dirty was evicted, and its image is on disk
C3_Witness ==
    \E p \in PageIds : ~ Resident(p) /\ reported[p] = << 1 >> /\ disk[p] = 1

\* C4: the page table agrees with the frames: a page id is in the page table iff
\* some frame holds it, every entry pid -> fid has frame fid holding pid, and no
\* two page ids map to the same frame.
C4_PageTableAgrees ==
    /\ \A p \in PageIds : Resident(p) <=> \E f \in Frames : pages_[f].page_id = p
    /\ \A p \in DOMAIN page_table_ : pages_[FrameOf(p)].page_id = p
    /\ \A p, q \in DOMAIN page_table_ : FrameOf(p) = FrameOf(q) => p = q

\* every frame holds a page, and one page more was created than there are frames:
\* a frame was reused
C4_Witness ==
    /\ free_list_ = << >>
    /\ next_page_id_ > pool_size_
    /\ Cardinality(DOMAIN page_table_) = pool_size_

C6_ExhaustionReported ==
    /\ [](Exhausted =>
            /\ NewPageResult = NullPtr
            /\ \A p \in PageIds :
                 (p < next_page_id_ /\ ~ Resident(p)) => FetchPageResult(p) = NullPtr)
    /\ [][(/\ Exhausted
           /\ \/ NewPageImpl
              \/ \E p \in PageIds : ~ Resident(p) /\ FetchPageImpl(p))
          => UNCHANGED << pages_, page_table_, free_list_, next_page_id_ >>]_vars

C9_FlushReturnsTrueWhenResident ==
    /\ [](\A p \in PageIds : FlushPageResult(p) <=> Resident(p))
    /\ [][\A p \in PageIds :
            (FlushPageImpl(p) /\ FlushPageResult(p)) =>
               /\ ~ pages_'[FrameOf(p)].is_dirty
               /\ disk'[p] = pages_'[FrameOf(p)].data]_vars

C11_DeleteContract ==
    /\ [](\A p \in PageIds :
            DeletePageResult(p) <=> ~ (Resident(p) /\ pages_[FrameOf(p)].pin_count > 0))
    /\ [][\A p \in PageIds :
            DeletePageImpl(p) =>
              IF ~ Resident(p) \/ pages_[FrameOf(p)].pin_count > 0
              THEN UNCHANGED bpmVars
              ELSE LET f == FrameOf(p) IN
                   /\ p \notin DOMAIN page_table_'
                   /\ pages_'[f].page_id = INVALID_PAGE_ID
                   /\ ~ pages_'[f].is_dirty
                   /\ pages_'[f].pin_count = 0
                   /\ InFreeList(f)'
                   /\ ~ InPageTable(f)'
                   /\ ~ InReplacer(f)']_vars

\* C12: a successful NewPage returns a frame that holds the page id the disk
\* manager allocates in this call, an id that is not in the page table before the
\* call; afterwards the page table maps that id to the frame, the frame has pin
\* count 1, is dirty and its buffer is all zero; the page the frame held before,
\* if any, is no longer in the page table.
C12_NewPageInstalls ==
    [][(NewPageImpl /\ NewPageResult # NullPtr) =>
          LET f == NewPageResult
              p == AllocatePage(next_page_id_).page_id
          IN  /\ p \notin DOMAIN page_table_
              /\ next_page_id_' = p + 1
              /\ p \in DOMAIN page_table_' /\ page_table_'[p] = f
              /\ pages_'[f] = [page_id |-> p, pin_count |-> 1, is_dirty |-> TRUE,
                               data |-> 0]
              /\ pages_[f].page_id # INVALID_PAGE_ID =>
                    pages_[f].page_id \notin DOMAIN page_table_']_vars

\* a page written by a client was replaced by a new page, whose buffer is zero
C12_Witness ==
    \E p, q \in PageIds :
        /\ q < p /\ p = next_page_id_ - 1
        /\ ~ Resident(q) /\ disk[q] = 1
        /\ Resident(p) /\ free_list_ = << >>
        /\ pages_[FrameOf(p)] = [page_id |-> p, pin_count |-> 1, is_dirty |-> TRUE,
                                 data |-> 0]

\* ------------------------------------------------------------ threads in FetchPage
\* BufferPoolManager declares latch_ (buffer_pool_manager.h line 221) and no
\* function takes it, so the statements of FetchPageImpl calls made by several
\* threads interleave.  Each action below is one statement group of
\* FetchPageImpl run by thread t.
ThreadPoolSize == 2   \* pool_size of the pool of SpecThreads
MaxCalls       == 1   \* FetchPage calls each thread makes

Threads == {1, 2}

IdleThread ==
    [pc |-> "idle", page_id |-> INVALID_PAGE_ID, fid |-> NullPtr, calls |-> 0,
     got |-> [p \in 0 .. ThreadPoolSize |-> 0]]

\* a pool constructed over a disk that holds pages 0 .. pool_size, none resident
InitThreads ==
    /\ pool_size_ = ThreadPoolSize
    /\ pages_ = [f \in 0 .. (ThreadPoolSize - 1) |-> EmptyPage]
    /\ page_table_ = << >>
    /\ free_list_ = [i \in 1 .. ThreadPoolSize |-> i - 1]
    /\ bits_ = [f \in 0 .. (ThreadPoolSize - 1) |-> [ref |-> 0, in_replacer |-> 0]]
    /\ hand_ = 0
    /\ sz_ = 0
    /\ disk = [p \in 0 .. ThreadPoolSize |-> 0]
    /\ next_page_id_ = ThreadPoolSize + 1
    /\ reported = [p \in 0 .. ThreadPoolSize |-> << 0 >>]
    /\ thr = [t \in Threads |-> IdleThread]
    /\ header_page_id_ = INVALID_PAGE_ID
    /\ num_buckets_ = 0
    /\ num_blocks_ = 0
    /\ size_ = 0
    /\ table_latch_ = FreeLatch
    /\ rwlatch_ = << >>

indexVars == << header_page_id_, num_buckets_, num_blocks_, size_,
                table_latch_, rwlatch_ >>

\* the call returns: the thread is idle again; a frame was handed out or not
ThreadReturn(t, fid) ==
    [thr EXCEPT ![t].pc = "idle", ![t].fid = NullPtr,
                ![t].page_id = INVALID_PAGE_ID,
                ![t].got = IF fid = NullPtr THEN @
                           ELSE [@ EXCEPT ![thr[t].page_id] = @ + 1]]

\* thread t calls FetchPage(page_id)
ThreadCall(t, page_id) ==
    /\ thr[t].pc = "idle"
    /\ thr[t].calls < MaxCalls
    /\ page_id < next_page_id_
    /\ thr' = [thr EXCEPT ![t].pc = "find", ![t].page_id = page_id,
                          ![t].calls = @ + 1]
    /\ UNCHANGED << bpmVars, reported, indexVars >>

\* lines 55-58: page_table_.find(page_id)
ThreadFind(t) ==
    /\ thr[t].pc = "find"
    /\ thr' = IF thr[t].page_id \in DOMAIN page_table_
              THEN [thr EXCEPT ![t].pc = "pin", ![t].fid = page_table_[thr[t].page_id]]
              ELSE [thr EXCEPT ![t].pc = "choose"]
    /\ UNCHANGED << bpmVars, reported, indexVars >>

\* lines 59-60: pages_[fid].pin_count_++; return
ThreadPinHit(t) ==
    /\ thr[t].pc = "pin"
    /\ pages_' = [pages_ EXCEPT ![thr[t].fid].pin_count = @ + 1]
    /\ thr' = ThreadReturn(t, thr[t].fid)
    /\ UNCHANGED << pool_size_, page_table_, free_list_, bits_, hand_, sz_, disk,
                    next_page_id_, reported, indexVars >>

\* lines 63-71: the replacement frame, or return nullptr
ThreadChoose(t) ==
    /\ thr[t].pc = "choose"
    /\ TakeReplacementFrame
    /\ thr' = IF ReplacementFrame = NullPtr
              THEN ThreadReturn(t, NullPtr)
              ELSE [thr EXCEPT ![t].pc = "evict", ![t].fid = ReplacementFrame]
    /\ UNCHANGED << pool_size_, pages_, page_table_, disk, next_page_id_, reported,
                    indexVars >>

\* lines 73-79: write the replaced page back, erase it from the page table
ThreadEvict(t) ==
    /\ thr[t].pc = "evict"
    /\ disk' = EvictWriteBack(disk, pages_[thr[t].fid])
    /\ page_table_' = PageTableErase(page_table_, pages_[thr[t].fid].page_id)
    /\ thr' = [thr EXCEPT ![t].pc = "install"]
    /\ UNCHANGED << pool_size_, pages_, free_list_, bits_, hand_, sz_, next_page_id_,
                    reported, indexVars >>

\* lines 80-84: insert the page, read it in, set the metadata; return
ThreadInstall(t) ==
    /\ thr[t].pc = "install"
    /\ page_table_' = PageTablePut(page_table_, thr[t].page_id, thr[t].fid)
    /\ pages_' = [pages_ EXCEPT
                    ![thr[t].fid] = FetchedPage(@, thr[t].page_id, disk)]
    /\ thr' = ThreadReturn(t, thr[t].fid)
    /\ UNCHANGED << pool_size_, free_list_, bits_, hand_, sz_, disk, next_page_id_,
                    reported, indexVars >>

NextThreads ==
    \/ \E t \in Threads, page_id \in PageIds : ThreadCall(t, page_id)
    \/ \E t \in Threads : ThreadFind(t)
    \/ \E t \in Threads : ThreadPinHit(t)
    \/ \E t \in Threads : ThreadChoose(t)
    \/ \E t \in Threads : ThreadEvict(t)
    \/ \E t \in Threads : ThreadInstall(t)

\* The pool of SpecThreads: threads that call FetchPage concurrently
SpecThreads == InitThreads /\ [][NextThreads]_vars

\* no thread is inside a call
Quiescent == \A t \in DOMAIN thr : thr[t].pc = "idle"

RECURSIVE GotBy(_, _)
GotBy(S, p) ==
    IF S = {} THEN 0
    ELSE LET t == CHOOSE x \in S : TRUE IN thr[t].got[p] + GotBy(S \ {t}, p)

\* the number of FetchPage(p) calls that returned a frame
Got(p) == GotBy(DOMAIN thr, p)

\* C13: the calls of concurrent threads are atomic: whenever no call is in
\* progress the pool is in a state that the completed calls reach when run one
\* after another.  For FetchPage calls (nothing is unpinned, so nothing is
\* evicted) that state has every fetched page in exactly one frame, in the page
\* table, with a pin count equal to the number of calls that fetched it: two
\* threads that fetch the same non-resident page end with one frame, pin count 2.
C13_CallsAtomic ==
    Quiescent =>
        \A p \in PageIds :
            /\ Cardinality({f \in Frames : pages_[f].page_id = p}) <= 1
            /\ Got(p) > 0 =>
                 /\ Resident(p)
                 /\ pages_[FrameOf(p)].page_id = p
                 /\ pages_[FrameOf(p)].pin_count = Got(p)

\* ------------------------------------------------------------ the replacer alone
ReplacerPoolSize == 3   \* num_pages of the replacer of SpecReplacer

\* ClockReplacer::ClockReplacer(num_pages); nothing else of the pool is used
InitReplacer == InitPool(ReplacerPoolSize) /\ NoClients

\* ClockReplacer::Victim(&frame_id)
ClockVictim ==
    /\ bits_' = Victim.bits
    /\ hand_' = Victim.hand
    /\ sz_' = Victim.sz
    /\ UNCHANGED << pool_size_, pages_, page_table_, free_list_, disk, next_page_id_,
                    reported, clientVars >>

\* ClockReplacer::Pin(frame_id)
ClockPin(frame_id) ==
    /\ bits_' = ReplacerPin(bits_, sz_, frame_id).bits
    /\ sz_' = ReplacerPin(bits_, sz_, frame_id).sz
    /\ UNCHANGED << pool_size_, pages_, page_table_, free_list_, hand_, disk,
                    next_page_id_, reported, clientVars >>

\* ClockReplacer::Unpin(frame_id)
ClockUnpin(frame_id) ==
    /\ bits_' = ReplacerUnpin(bits_, sz_, frame_id).bits
    /\ sz_' = ReplacerUnpin(bits_, sz_, frame_id).sz
    /\ UNCHANGED << pool_size_, pages_, page_table_, free_list_, hand_, disk,
                    next_page_id_, reported, clientVars >>

\* ClockReplacer::Size()
Size == sz_

NextReplacer ==
    \/ ClockVictim
    \/ \E frame_id \in Frames : ClockPin(frame_id)
    \/ \E frame_id \in Frames : ClockUnpin(frame_id)

\* The replacer of SpecReplacer: any sequence of Victim, Pin and Unpin calls
SpecReplacer == InitReplacer /\ [][NextReplacer]_vars

\* C14: Victim finds a victim whenever one exists: it returns a frame id when at
\* least one frame is in the replacer and none exactly when the replacer is
\* empty; the frame returned was in the replacer before the call and is not in
\* it afterwards.
C14_VictimFound ==
    /\ [](/\ Victim.found <=> (\E f \in Frames : InReplacer(f))
          /\ Victim.found => Victim.frame_id \in Frames /\ InReplacer(Victim.frame_id)
          /\ ~ Victim.found => Victim.frame_id = NullPtr)
    /\ [][(ClockVictim /\ Victim.found) =>
            bits_'[Victim.frame_id].in_replacer = 0]_vars

\* every frame is in the replacer with its ref bit set, and Victim finds one
C14_Witness ==
    /\ \A f \in Frames : bits_[f] = [ref |-> 1, in_replacer |-> 1]
    /\ Victim.found

RECURSIVE UnpinAll(_, _)
\* the replacer after Unpin is called for the frames of the sequence, in order
UnpinAll(r, frame_ids) ==
    IF frame_ids = << >> THEN r
    ELSE UnpinAll(ReplacerUnpin(r.bits, r.sz, Head(frame_ids)), Tail(frame_ids))

\* a fresh replacer after Unpin(0), Unpin(1), Unpin(2), Unpin(0)
SecondChance ==
    UnpinAll([bits |-> [f \in Frames |-> [ref |-> 0, in_replacer |-> 0]], sz |-> 0],
             << 0, 1, 2, 0 >>)

\* C15: on a fresh replacer, after Unpin(0), Unpin(1), Unpin(2), Unpin(0), the
\* next Victim returns frame 1.
C15_SecondChance ==
    (bits_ = SecondChance.bits /\ sz_ = SecondChance.sz /\ hand_ = 0) =>
        Victim.found /\ Victim.frame_id = 1

\* the replacer of the scenario, before Victim is called
C15_Witness ==
    /\ bits_ = SecondChance.bits /\ sz_ = SecondChance.sz /\ hand_ = 0
    /\ \A f \in {0, 1, 2} : InReplacer(f)
    /\ Victim.frame_id = 1

\* C16: Size() is the number of frames whose in_replacer flag is set, and
\* 0 <= Size() <= pool size; Pin of a frame that is not in the replacer and Unpin
\* of a frame that is in it leave Size() as it is.
C16_SizeCounts ==
    /\ [](/\ Size = Cardinality({f \in Frames : InReplacer(f)})
          /\ 0 <= Size /\ Size <= pool_size_
          /\ \A f \in Frames :
               /\ ~ InReplacer(f) => ReplacerPin(bits_, sz_, f).sz = Size
               /\ InReplacer(f) => ReplacerUnpin(bits_, sz_, f).sz = Size)
    /\ [][\A f \in Frames :
            /\ (ClockPin(f) /\ ~ InReplacer(f)) => Size' = Size
            /\ (ClockUnpin(f) /\ InReplacer(f)) => Size' = Size
            /\ (ClockPin(f) /\ InReplacer(f)) => Size' = Size - 1
            /\ (ClockUnpin(f) /\ ~ InReplacer(f)) => Size' = Size + 1]_vars

\* two frames are in the replacer, one is not, after a Victim moved the hand
C16_Witness ==
    /\ Size = 2
    /\ hand_ # 0
    /\ \E f \in Frames : ~ InReplacer(f) /\ bits_[f].ref = 1

\* ------------------------------------------------------------ index pages
BLOCK_ARRAY_SIZE == 2   \* slots of a block page
MaxKey           == 1   \* keys are 0 .. MaxKey
NumBuckets       == 2   \* the index is constructed with 1 .. NumBuckets buckets
MaxBuckets       == 4   \* Resize is not called for more buckets than this
IndexPoolSize    == 8   \* pool_size of the pool of SpecIndex: a frame for every page

Keys   == 0 .. MaxKey
Values == {0, 1}
Slots  == 0 .. (BLOCK_ARRAY_SIZE - 1)

\* A zeroed page buffer, as the members of HashTableHeaderPage (size_, next_ind_,
\* block_page_ids_) and of HashTableBlockPage (occupied_, readable_, array_) read it
ZeroImage ==
    [size |-> 0, next_ind |-> 0, block_page_ids |-> << >>,
     occupied |-> [i \in Slots |-> FALSE], readable |-> [i \in Slots |-> FALSE],
     array |-> [i \in Slots |-> << 0, 0 >>]]

\* HashTableHeaderPage
SetSize(img, size) == [img EXCEPT !.size = size]
AddBlockPageId(img, page_id) ==
    [img EXCEPT !.block_page_ids = Append(@, page_id), !.next_ind = @ + 1]
GetBlockPageId(img, index) == img.block_page_ids[index + 1]
NumBlocks(img) == img.next_ind

\* HashTableBlockPage
KeyAt(img, bucket_ind) == img.array[bucket_ind][1]
ValueAt(img, bucket_ind) == img.array[bucket_ind][2]
IsOccupied(img, bucket_ind) == img.occupied[bucket_ind]
IsReadable(img, bucket_ind) == img.readable[bucket_ind]

\* HashTableBlockPage::Insert: what it returns, and the page after it
BlockInsertResult(img, bucket_ind) == ~ img.occupied[bucket_ind]
BlockInsert(img, bucket_ind, key, value) ==
    IF img.occupied[bucket_ind] THEN img
    ELSE [img EXCEPT !.array[bucket_ind] = << key, value >>,
                     !.occupied[bucket_ind] = TRUE,
                     !.readable[bucket_ind] = TRUE]

\* a Remove that leaves the readable bit set
BlockRemoveKeeps(img, bucket_ind) == img

\* a Remove that clears the occupied bit with the readable bit
BlockRemoveFrees(img, bucket_ind) ==
    [img EXCEPT !.readable[bucket_ind] = FALSE, !.occupied[bucket_ind] = FALSE]

\* HashTableBlockPage::Remove
BlockRemove(img, bucket_ind) == [img EXCEPT !.readable[bucket_ind] = FALSE]

\* HashFunction<KeyType>::GetHash
GetHash(key) == key

\* ------------------------------------------------------------ the pool under the index
\* The index and its pool as one value st, so that an index operation is the
\* composition of the pool calls it makes.  Every page the index made is
\* resident (the pool has a frame for every page), so FetchPage finds the page
\* in the page table and NewPage finds a frame in the free list; in a pool that
\* was made over the disk of an older one, FetchPage reads a page of the older
\* pool from the disk into a frame of the free list.
IndexState ==
    [pages |-> pages_, page_table |-> page_table_, free_list |-> free_list_,
     bits |-> bits_, sz |-> sz_, disk |-> disk, next_page_id |-> next_page_id_,
     header_page_id |-> header_page_id_, num_buckets |-> num_buckets_,
     num_blocks |-> num_blocks_, size |-> size_]

\* FetchPageImpl, lines 55-61 (the page is resident) and lines 63-84 (it is
\* not, and a frame is free)
PoolFetchPage(st, page_id) ==
    IF page_id \in DOMAIN st.page_table
    THEN [st EXCEPT !.pages[st.page_table[page_id]].pin_count = @ + 1]
    ELSE LET fid == Back(st.free_list)
             old == st.pages[fid]
             d2  == EvictWriteBack(st.disk, old)
         IN  [st EXCEPT !.free_list = PopBack(@),
                        !.disk = d2,
                        !.page_table = PageTablePut(PageTableErase(@, old.page_id),
                                                    page_id, fid),
                        !.pages[fid] = FetchedPage(old, page_id, d2)]

\* UnpinPageImpl
PoolUnpinPage(st, page_id, is_dirty) ==
    IF \/ page_id \notin DOMAIN st.page_table
       \/ st.pages[st.page_table[page_id]].pin_count = 0
    THEN st
    ELSE LET fid == st.page_table[page_id]
             cnt == st.pages[fid].pin_count - 1
             r   == IF cnt = 0 THEN ReplacerUnpin(st.bits, st.sz, fid)
                               ELSE [bits |-> st.bits, sz |-> st.sz]
         IN  [st EXCEPT !.pages[fid].pin_count = cnt,
                        !.pages[fid].is_dirty = UnpinDirty(@, is_dirty),
                        !.bits = r.bits, !.sz = r.sz]

\* NewPageImpl, lines 143-147 and 163-169 (a frame is free): the page id is
\* st.next_page_id before the call, the buffer ResetMemory zeroed is ZeroImage
PoolNewPage(st) ==
    LET fid == Back(st.free_list)
        a   == AllocatePage(st.next_page_id)
    IN  [st EXCEPT !.free_list = PopBack(@),
                   !.next_page_id = a.next,
                   !.page_table = PageTablePut(@, a.page_id, fid),
                   !.pages[fid] = [page_id |-> a.page_id, pin_count |-> 1,
                                   is_dirty |-> TRUE, data |-> ZeroImage]]

\* DeletePageImpl
PoolDeletePage(st, page_id) ==
    IF page_id \notin DOMAIN st.page_table THEN st
    ELSE LET fid == st.page_table[page_id] IN
         IF st.pages[fid].pin_count > 0 THEN st
         ELSE [st EXCEPT !.page_table = PageTableErase(@, page_id),
                         !.pages[fid].page_id = INVALID_PAGE_ID,
                         !.free_list = DeleteFreeList(@, fid)]

\* the buffer of the frame that holds page_id, read and written through the Page*
\* the pool handed out
PageData(st, page_id) == st.pages[st.page_table[page_id]].data
SetPageData(st, page_id, img) ==
    [st EXCEPT !.pages[st.page_table[page_id]].data = img]

\* ------------------------------------------------------------ LinearProbeHashTable
RECURSIVE NewBlocks(_, _, _)
\* constructor lines 40-44 (unpin) and Resize lines 226-229 (no unpin): count new
\* block pages, each added to the header page
NewBlocks(st, count, unpin) ==
    IF count = 0 THEN st
    ELSE LET block_page_id == st.next_page_id
             s1 == PoolNewPage(st)
             s2 == IF unpin THEN PoolUnpinPage(s1, block_page_id, TRUE) ELSE s1
             s3 == SetPageData(s2, st.header_page_id,
                               AddBlockPageId(PageData(s2, st.header_page_id),
                                              block_page_id))
         IN  NewBlocks(s3, count - 1, unpin)

\* LinearProbeHashTable::LinearProbeHashTable(name, bpm, comparator, num_buckets, hash_fn)
Construct(st, num_buckets) ==
    LET hid == st.next_page_id
        s1  == [PoolNewPage(st) EXCEPT !.header_page_id = hid,
                                      !.num_buckets = num_buckets, !.size = 0]
        s2  == SetPageData(s1, hid, SetSize(PageData(s1, hid), 0))
        s3  == [s2 EXCEPT !.num_blocks = (num_buckets - 1) \div BLOCK_ARRAY_SIZE + 1]
        s4  == NewBlocks(s3, s3.num_blocks, TRUE)
    IN  PoolUnpinPage(s4, hid, TRUE)

RECURSIVE GetValueProbe(_, _, _, _, _)
\* GetValue, lines 78-98: the probe loop
GetValueProbe(st, key, offset, i, result) ==
    IF i >= st.num_buckets THEN [st |-> st, result |-> result]
    ELSE LET block_id   == offset \div BLOCK_ARRAY_SIZE
             bucket_ind == offset % BLOCK_ARRAY_SIZE
             current_page_id ==
                 GetBlockPageId(PageData(st, st.header_page_id), block_id)
             s1  == PoolFetchPage(st, current_page_id)
             img == PageData(s1, current_page_id)
         IN  IF ~ IsOccupied(img, bucket_ind)
             THEN [st |-> PoolUnpinPage(s1, current_page_id, FALSE), result |-> result]
             ELSE GetValueProbe(PoolUnpinPage(s1, current_page_id, FALSE), key,
                                (offset + 1) % st.num_buckets, i + 1,
                                IF IsReadable(img, bucket_ind) /\ KeyAt(img, bucket_ind) = key
                                THEN Append(result, ValueAt(img, bucket_ind))
                                ELSE result)

\* LinearProbeHashTable::GetValue(transaction, key, result): the state after the
\* call, the values appended to result, and what the call returns
GetValueOn(st, key) ==
    LET r == GetValueProbe(PoolFetchPage(st, st.header_page_id), key,
                           GetHash(key) % st.num_buckets, 0, << >>)
    IN  [st |-> PoolUnpinPage(r.st, st.header_page_id, FALSE),
         result |-> r.result, ret |-> TRUE]

RECURSIVE InsertProbe(_, _, _, _, _)
\* Insert, lines 120-159: the probe loop and the return after it
InsertProbe(st, key, value, offset, i) ==
    IF i >= st.num_buckets
    THEN [st |-> PoolUnpinPage(st, st.header_page_id, TRUE), ret |-> FALSE]
    ELSE LET block_id   == offset \div BLOCK_ARRAY_SIZE
             bucket_ind == offset % BLOCK_ARRAY_SIZE
             current_page_id ==
                 GetBlockPageId(PageData(st, st.header_page_id), block_id)
             s1  == PoolFetchPage(st, current_page_id)
             img == PageData(s1, current_page_id)
         IN  IF /\ IsReadable(img, bucket_ind)
                /\ KeyAt(img, bucket_ind) = key
                /\ ValueAt(img, bucket_ind) = value
             THEN [st |-> PoolUnpinPage(PoolUnpinPage(s1, current_page_id, FALSE),
                                        st.header_page_id, FALSE),
                   ret |-> FALSE]
             ELSE IF BlockInsertResult(img, bucket_ind)
             THEN LET s2 == SetPageData(s1, current_page_id,
                                        BlockInsert(img, bucket_ind, key, value))
                      s3 == [s2 EXCEPT !.size = @ + 1]
                      s4 == SetPageData(s3, st.header_page_id,
                                        SetSize(PageData(s3, st.header_page_id), s3.size))
                  IN  [st |-> PoolUnpinPage(PoolUnpinPage(s4, current_page_id, TRUE),
                                            st.header_page_id, TRUE),
                       ret |-> TRUE]
             ELSE InsertProbe(PoolUnpinPage(s1, current_page_id, TRUE), key, value,
                              (offset + 1) % st.num_buckets, i + 1)

\* an Insert that probes the full table as it is
InsertFullTable(st, key, value) ==
    InsertProbe(PoolFetchPage(st, st.header_page_id), key, value,
                GetHash(key) % st.num_buckets, 0)

RECURSIVE InsertOn(_, _, _)
RECURSIVE Resize(_, _)
RECURSIVE ResizeSlots(_, _, _)
RECURSIVE ResizeBlocks(_, _, _)

\* a Resize that reinserts nothing
ResizeSlotsNone(st, old_block_page_id, bucket_ind) == st

\* Resize, lines 235-239: reinsert the readable slots of one old block page
ResizeSlots(st, old_block_page_id, bucket_ind) ==
    IF bucket_ind >= BLOCK_ARRAY_SIZE THEN st
    ELSE LET img == PageData(st, old_block_page_id) IN
         IF IsReadable(img, bucket_ind)
         THEN ResizeSlots(InsertOn(st, KeyAt(img, bucket_ind),
                                   ValueAt(img, bucket_ind)).st,
                          old_block_page_id, bucket_ind + 1)
         ELSE ResizeSlots(st, old_block_page_id, bucket_ind + 1)

\* Resize, lines 232-241: every old block page is fetched, reinserted, deleted
ResizeBlocks(st, old_header_page_id, i) ==
    IF i >= NumBlocks(PageData(st, old_header_page_id)) THEN st
    ELSE LET old_block_page_id ==
                 GetBlockPageId(PageData(st, old_header_page_id), i)
             s1 == PoolFetchPage(st, old_block_page_id)
             s2 == ResizeSlots(s1, old_block_page_id, 0)
         IN  ResizeBlocks(PoolDeletePage(s2, old_block_page_id),
                          old_header_page_id, i + 1)

\* LinearProbeHashTable::Resize(initial_size)
Resize(st, initial_size) ==
    LET old_header_page_id == st.header_page_id
        s1 == PoolFetchPage(st, old_header_page_id)
        s2 == [s1 EXCEPT !.num_buckets = 2 * initial_size,
                         !.num_blocks = (2 * initial_size - 1) \div BLOCK_ARRAY_SIZE + 1]
        s3 == [PoolNewPage(s2) EXCEPT !.header_page_id = s2.next_page_id]
        s4 == SetPageData(s3, s3.header_page_id,
                          SetSize(PageData(s3, s3.header_page_id), s3.num_buckets))
        s5 == NewBlocks(s4, s4.num_blocks, FALSE)
        s6 == [s5 EXCEPT !.size = 0]
        s7 == ResizeBlocks(s6, old_header_page_id, 0)
    IN  PoolDeletePage(s7, old_header_page_id)

\* LinearProbeHashTable::Insert(transaction, key, value): the state after the
\* call and what the call returns
InsertOn(st, key, value) ==
    LET s0 == IF st.size = st.num_buckets THEN Resize(st, st.size) ELSE st
    IN  InsertProbe(PoolFetchPage(s0, s0.header_page_id), key, value,
                    GetHash(key) % s0.num_buckets, 0)

\* a Remove that leaves size_ as it is
RemoveSizeKept(size) == size

\* Remove, line 190: size_--
RemoveSize(size) == size - 1

RECURSIVE RemoveProbe(_, _, _, _, _)
\* Remove, lines 173-209: the probe loop and the return after it
RemoveProbe(st, key, value, offset, i) ==
    IF i >= st.num_buckets
    THEN [st |-> PoolUnpinPage(st, st.header_page_id, TRUE), ret |-> FALSE]
    ELSE LET block_id   == offset \div BLOCK_ARRAY_SIZE
             bucket_ind == offset % BLOCK_ARRAY_SIZE
             current_page_id ==
                 GetBlockPageId(PageData(st, st.header_page_id), block_id)
             s1  == PoolFetchPage(st, current_page_id)
             img == PageData(s1, current_page_id)
         IN  IF ~ IsOccupied(img, bucket_ind)
             THEN [st |-> PoolUnpinPage(PoolUnpinPage(s1, current_page_id, FALSE),
                                        st.header_page_id, TRUE),
                   ret |-> FALSE]
             ELSE IF /\ IsReadable(img, bucket_ind)
                     /\ KeyAt(img, bucket_ind) = key
                     /\ ValueAt(img, bucket_ind) = value
             THEN LET s2 == SetPageData(s1, current_page_id, BlockRemove(img, bucket_ind))
                      s3 == [s2 EXCEPT !.size = RemoveSize(@)]
                      s4 == SetPageData(s3, st.header_page_id,
                                        SetSize(PageData(s3, st.header_page_id), s3.size))
                  IN  [st |-> PoolUnpinPage(PoolUnpinPage(s4, current_page_id, TRUE),
                                            st.header_page_id, TRUE),
                       ret |-> TRUE]
             ELSE RemoveProbe(PoolUnpinPage(s1, current_page_id, FALSE), key, value,
                              (offset + 1) % st.num_buckets, i + 1)

\* LinearProbeHashTable::Remove(transaction, key, value)
RemoveOn(st, key, value) ==
    RemoveProbe(PoolFetchPage(st, st.header_page_id), key, value,
                GetHash(key) % st.num_buckets, 0)

\* LinearProbeHashTable::GetSize
GetSize == size_

\* a new BufferPoolManager of pool_size frames, and no index yet
FreshIndexState(pool_size) ==
    [pages |-> [f \in 0 .. (pool_size - 1) |-> EmptyPage],
     page_table |-> << >>,
     free_list |-> [i \in 1 .. pool_size |-> i - 1],
     bits |-> [f \in 0 .. (pool_size - 1) |-> [ref |-> 0, in_replacer |-> 0]],
     sz |-> 0, disk |-> [p \in 0 .. IndexPoolSize |-> 0], next_page_id |-> 0,
     header_page_id |-> INVALID_PAGE_ID, num_buckets |-> 0,
     num_blocks |-> 0, size |-> 0]

\* the pool of pool_size frames and the index are st
IndexBuilt(pool_size, st) ==
    /\ pool_size_ = pool_size
    /\ pages_ = st.pages
    /\ page_table_ = st.page_table
    /\ free_list_ = st.free_list
    /\ bits_ = st.bits
    /\ hand_ = 0
    /\ sz_ = st.sz
    /\ disk = st.disk
    /\ next_page_id_ = st.next_page_id
    /\ reported = [p \in 0 .. IndexPoolSize |-> << >>]
    /\ header_page_id_ = st.header_page_id
    /\ num_buckets_ = st.num_buckets
    /\ num_blocks_ = st.num_blocks
    /\ size_ = st.size

\* a pool of pool_size free frames, and the index constructed on it
InitIndexPool(pool_size) ==
    \E num_buckets \in 1 .. NumBuckets :
        /\ IndexBuilt(pool_size, Construct(FreshIndexState(pool_size), num_buckets))
        /\ thr = << >>
        /\ table_latch_ = FreeLatch
        /\ rwlatch_ = << >>

\* the pool of SpecIndex
InitIndex == InitIndexPool(IndexPoolSize)

\* the index and its pool become st
BecomeIndexState(st) ==
    /\ pages_' = st.pages
    /\ page_table_' = st.page_table
    /\ free_list_' = st.free_list
    /\ bits_' = st.bits
    /\ sz_' = st.sz
    /\ next_page_id_' = st.next_page_id
    /\ header_page_id_' = st.header_page_id
    /\ num_buckets_' = st.num_buckets
    /\ num_blocks_' = st.num_blocks
    /\ size_' = st.size
    /\ disk' = st.disk
    /\ UNCHANGED << pool_size_, hand_, reported, thr, table_latch_, rwlatch_ >>

\* an Insert that calls Resize stays within MaxBuckets and finds a free frame for
\* the new header page and each new block page
InsertEnabled ==
    size_ = num_buckets_ =>
        /\ 2 * size_ <= MaxBuckets
        /\ Len(free_list_) >= 2 + (2 * size_ - 1) \div BLOCK_ARRAY_SIZE

Insert(key, value) ==
    /\ header_page_id_ \in DOMAIN page_table_
    /\ InsertEnabled
    /\ BecomeIndexState(InsertOn(IndexState, key, value).st)

Remove(key, value) ==
    /\ header_page_id_ \in DOMAIN page_table_
    /\ BecomeIndexState(RemoveOn(IndexState, key, value).st)

GetValue(key) ==
    /\ header_page_id_ \in DOMAIN page_table_
    /\ BecomeIndexState(GetValueOn(IndexState, key).st)

NextIndex ==
    \/ \E key \in Keys, value \in Values : Insert(key, value)
    \/ \E key \in Keys, value \in Values : Remove(key, value)
    \/ \E key \in Keys : GetValue(key)

\* The index of SpecIndex: Insert, Remove and GetValue calls of one thread
SpecIndex == InitIndex /\ [][NextIndex]_vars

\* the slots of the current directory, << block, slot >>, that are readable
ReadableSlots(st) ==
    LET header == PageData(st, st.header_page_id) IN
    {bs \in (0 .. (NumBlocks(header) - 1)) \X Slots :
        IsReadable(PageData(st, GetBlockPageId(header, bs[1])), bs[2])}

\* the << key, value >> in a slot of the current directory
PairAt(st, bs) ==
    PageData(st, GetBlockPageId(PageData(st, st.header_page_id), bs[1])).array[bs[2]]

\* the pairs the index stores
Stored(st) == {PairAt(st, bs) : bs \in ReadableSlots(st)}

C18_DuplicateBar ==
    /\ \A a, b \in ReadableSlots(IndexState) :
         a # b => PairAt(IndexState, a) # PairAt(IndexState, b)
    /\ InsertEnabled =>
         \A key \in Keys, value \in Values :
            LET r == InsertOn(IndexState, key, value) IN
            /\ << key, value >> \in Stored(IndexState) =>
                 /\ ~ r.ret
                 /\ r.st.size = size_
                 /\ Stored(r.st) = Stored(IndexState)
                 /\ Cardinality(ReadableSlots(r.st)) = Cardinality(ReadableSlots(IndexState))
            /\ (/\ << key, value >> \notin Stored(IndexState)
                /\ \E other \in Values : << key, other >> \in Stored(IndexState)) =>
                 /\ r.ret
                 /\ << key, value >> \in Stored(r.st)

\* the values of a result vector
ValuesOf(result) == {result[i] : i \in 1 .. Len(result)}

\* C19: the index behaves like a set of pairs: GetValue(k) appends exactly the
\* values v with << k, v >> stored, each once; after Insert(k, v) the result of
\* GetValue(k) contains v; after Remove(k, v) it does not; Insert and Remove leave
\* every other pair as it is; a key that is in no slot yields an empty result.
C19_SetOfPairs ==
    /\ \A key \in Keys :
         LET result == GetValueOn(IndexState, key).result IN
         /\ ValuesOf(result) = {v \in Values : << key, v >> \in Stored(IndexState)}
         /\ Len(result) = Cardinality(ValuesOf(result))
    /\ \A key \in Keys, value \in Values :
         LET removed == RemoveOn(IndexState, key, value).st IN
         /\ value \notin ValuesOf(GetValueOn(removed, key).result)
         /\ Stored(removed) = Stored(IndexState) \ {<< key, value >>}
    /\ InsertEnabled =>
         \A key \in Keys, value \in Values :
            LET inserted == InsertOn(IndexState, key, value).st IN
            /\ value \in ValuesOf(GetValueOn(inserted, key).result)
            /\ Stored(inserted) = Stored(IndexState) \cup {<< key, value >>}

\* C20: GetValue(key, result) returns true if at least one value was appended to
\* result, and false when no stored pair has the key.
C20_GetValueReturn ==
    \A key \in Keys :
        LET r == GetValueOn(IndexState, key) IN
        /\ r.result # << >> => r.ret
        /\ (\A v \in Values : << key, v >> \notin Stored(IndexState)) => ~ r.ret

\* the slots of the current directory, << block, slot >>, that are occupied
OccupiedSlots(st) ==
    LET header == PageData(st, st.header_page_id) IN
    {bs \in (0 .. (NumBlocks(header) - 1)) \X Slots :
        IsOccupied(PageData(st, GetBlockPageId(header, bs[1])), bs[2])}

ResizePoolSize == 5   \* pool_size of the pool of SpecResize

RECURSIVE ResizeFrames(_, _)
\* the frames Resize(initial_size) takes from the free list when the old directory
\* holds pairs readable pairs: a header page and the block pages of 2 * initial_size
\* buckets, and those of the Resize the reinserting Insert calls once the new
\* directory is full
ResizeFrames(initial_size, pairs) ==
    1 + ((2 * initial_size - 1) \div BLOCK_ARRAY_SIZE + 1)
      + (IF pairs > 2 * initial_size THEN ResizeFrames(2 * initial_size, pairs) ELSE 0)

RECURSIVE ResizeBuckets(_, _)
\* the buckets of the directory Resize(initial_size) ends with
ResizeBuckets(initial_size, pairs) ==
    IF pairs > 2 * initial_size THEN ResizeBuckets(2 * initial_size, pairs)
    ELSE 2 * initial_size

\* Resize(initial_size) stays within MaxBuckets and finds a free frame for every
\* page it makes
ResizeEnabled(initial_size) ==
    LET pairs == Cardinality(ReadableSlots(IndexState)) IN
    /\ ResizeBuckets(initial_size, pairs) <= MaxBuckets
    /\ Len(free_list_) >= ResizeFrames(initial_size, pairs)

\* the sizes a caller observed
ObservedSizes == 1 .. (MaxBuckets \div 2)

\* a call of the public Resize(initial_size)
ResizeCall(initial_size) ==
    /\ header_page_id_ \in DOMAIN page_table_
    /\ ResizeEnabled(initial_size)
    /\ BecomeIndexState(Resize(IndexState, initial_size))

\* the values the callers of SpecResize store
ResizeValues == {0}

NextResize ==
    \/ \E key \in Keys, value \in ResizeValues : Insert(key, value)
    \/ \E key \in Keys, value \in ResizeValues : Remove(key, value)
    \/ \E key \in Keys : GetValue(key)
    \/ \E initial_size \in ObservedSizes : ResizeCall(initial_size)

\* The index of SpecResize: Insert, Remove, GetValue and Resize calls of one thread
SpecResize == InitIndexPool(ResizePoolSize) /\ [][NextResize]_vars

\* how many readable slots of the current directory hold pair
PairCount(st, pair) ==
    Cardinality({bs \in ReadableSlots(st) : PairAt(st, bs) = pair})

BlockPageIds(st) ==
    LET header == PageData(st, st.header_page_id) IN
    {GetBlockPageId(header, b) : b \in 0 .. (NumBlocks(header) - 1)}

C24_ObservedSize ==
    /\ \A initial_size \in ObservedSizes :
         ResizeEnabled(initial_size) =>
            LET r == Resize(IndexState, initial_size) IN
            /\ r.num_buckets >= num_buckets_
            /\ 2 * initial_size <= num_buckets_ =>
                 /\ r.num_buckets = num_buckets_
                 /\ r.header_page_id = header_page_id_
                 /\ r.size = size_
                 /\ ReadableSlots(r) = ReadableSlots(IndexState)
                 /\ \A bs \in ReadableSlots(r) : PairAt(r, bs) = PairAt(IndexState, bs)
    /\ InsertEnabled =>
         \A key \in Keys, value \in Values :
            InsertOn(IndexState, key, value).st.num_buckets >= num_buckets_

\* C25: pin discipline of the index: every index operation unpins once for each
\* FetchPage or NewPage it made, so that whenever no index operation is in
\* progress every frame of the buffer pool has pin_count 0.
C25_PinDiscipline ==
    \A f \in Frames : pages_[f].pin_count = 0

\* ------------------------------------------------------------ threads in the index
\* Two threads, each making one call on the same index.  A step of a thread is
\* the acquisition of one latch (for WLock its two waits apart) with the code
\* that follows it up to the next acquisition.  FetchPage and UnpinPage are
\* taken as one step each (SpecThreads has their interleavings), over a pool
\* with a frame for every page.  Resize, which takes no latch, is taken as one
\* step: the interleavings inside it are not enumerated.
PrefillValue == 2   \* the value of the pairs stored before the threads start

\* a thread that is in no call
IdleCall ==
    [pc |-> "idle", op |-> "none", key |-> 0, value |-> 0,
     h_page |-> INVALID_PAGE_ID, current_page_id |-> INVALID_PAGE_ID,
     offset |-> 0, i |-> 0, result |-> << >>, ret |-> FALSE]

RECURSIVE Prefill(_, _)
\* the index after Insert(k, PrefillValue) for k = 0 .. fill - 1 by one thread
Prefill(st, fill) ==
    IF fill = 0 THEN st
    ELSE InsertOn(Prefill(st, fill - 1), fill - 1, PrefillValue).st

\* an index of num_buckets buckets of which fill are taken, no thread in it
InitConc ==
    \E num_buckets \in 1 .. MaxBuckets :
        \E fill \in 0 .. num_buckets :
            /\ IndexBuilt(IndexPoolSize,
                          Prefill(Construct(FreshIndexState(IndexPoolSize), num_buckets),
                                  fill))
            /\ thr = [t \in Threads |-> IdleCall]
            /\ table_latch_ = FreeLatch
            /\ rwlatch_ = [f \in 0 .. (IndexPoolSize - 1) |-> FreeLatch]

\* Page::rwlatch_ of the frame that holds page_id
LatchOf(page_id) == rwlatch_[page_table_[page_id]]

\* ReaderWriterLatch::MAX_READERS_
MAX_READERS_ == 1000

\* an RLock that does not wait for the writer that entered
CanRLockOvertakes(latch) == latch.reader_count # MAX_READERS_

\* ReaderWriterLatch::RLock passes the wait of line 70
CanRLock(latch) == ~ latch.writer_entered /\ latch.reader_count # MAX_READERS_
\* ReaderWriterLatch::RLock, line 73
RLock(latch) == [latch EXCEPT !.reader_count = @ + 1]
\* ReaderWriterLatch::RUnlock
RUnlock(latch) == [latch EXCEPT !.reader_count = @ - 1]
\* a WLock that does not wait for the writer that entered
CanWEnterAlways(latch) == TRUE

\* ReaderWriterLatch::WLock passes the wait of line 47
CanWEnter(latch) == ~ latch.writer_entered
\* ReaderWriterLatch::WLock, line 50
WEnter(latch) == [latch EXCEPT !.writer_entered = TRUE]
\* ReaderWriterLatch::WLock passes the wait of line 51
CanWLock(latch) == latch.reader_count = 0
\* ReaderWriterLatch::WUnlock
WUnlock(latch) == [latch EXCEPT !.writer_entered = FALSE]

\* the latches with the latch of page_id (a page of st) replaced
WithLatch(latches, st, page_id, latch) ==
    [latches EXCEPT ![st.page_table[page_id]] = latch]

\* thread t took a step: the pool and the index are st, its locals are call
ConcStep(t, st, call, table, latches) ==
    /\ pages_' = st.pages
    /\ page_table_' = st.page_table
    /\ free_list_' = st.free_list
    /\ bits_' = st.bits
    /\ sz_' = st.sz
    /\ next_page_id_' = st.next_page_id
    /\ header_page_id_' = st.header_page_id
    /\ num_buckets_' = st.num_buckets
    /\ num_blocks_' = st.num_blocks
    /\ size_' = st.size
    /\ thr' = [thr EXCEPT ![t] = call]
    /\ table_latch_' = table
    /\ rwlatch_' = latches
    /\ disk' = st.disk
    /\ UNCHANGED << pool_size_, hand_, reported >>

\* the call of thread t returns ret
Returned(t, ret, result) ==
    [IdleCall EXCEPT !.pc = "done", !.op = thr[t].op, !.key = thr[t].key,
                     !.value = thr[t].value, !.ret = ret, !.result = result]

\* thread t calls Insert(key, value)
CallInsert(t, key, value) ==
    /\ thr[t].pc = "idle"
    /\ ConcStep(t, IndexState,
                [IdleCall EXCEPT !.pc = "check", !.op = "Insert",
                                 !.key = key, !.value = value],
                table_latch_, rwlatch_)

\* thread t calls Remove(key, value)
CallRemove(t, key, value) ==
    /\ thr[t].pc = "idle"
    /\ ConcStep(t, IndexState,
                [IdleCall EXCEPT !.pc = "rlock", !.op = "Remove",
                                 !.key = key, !.value = value],
                table_latch_, rwlatch_)

\* thread t calls GetValue(key)
CallGetValue(t, key) ==
    /\ thr[t].pc = "idle"
    /\ ConcStep(t, IndexState,
                [IdleCall EXCEPT !.pc = "rlock", !.op = "GetValue", !.key = key],
                table_latch_, rwlatch_)

\* Insert, line 111: the test of size_ against num_buckets_
InsertCheck(t) ==
    /\ thr[t].pc = "check"
    /\ ConcStep(t, IndexState,
                [thr[t] EXCEPT !.pc = IF size_ = num_buckets_ THEN "resize" ELSE "rlock"],
                table_latch_, rwlatch_)

\* Insert, line 112: Resize(size_), with size_ as it is at the call.  Resize(0),
\* where 2 * 0 - 1 wraps around in size_t, is left out.
InsertResize(t) ==
    /\ thr[t].pc = "resize"
    /\ size_ >= 1
    /\ ResizeEnabled(size_)
    /\ ConcStep(t, Resize(IndexState, size_), [thr[t] EXCEPT !.pc = "rlock"],
                table_latch_, rwlatch_)

\* GetValue lines 72-75, Insert lines 115-119, Remove lines 167-172:
\* table_latch_.RLock() and the fetch of the header page
TableRLock(t) ==
    /\ thr[t].pc = "rlock"
    /\ CanRLock(table_latch_)
    /\ ConcStep(t, PoolFetchPage(IndexState, header_page_id_),
                [thr[t] EXCEPT !.pc = IF thr[t].op = "GetValue" THEN "hrlatch"
                                                                ELSE "probe",
                               !.h_page = header_page_id_,
                               !.offset = GetHash(thr[t].key) % num_buckets_,
                               !.i = 0],
                RLock(table_latch_), rwlatch_)

\* GetValue, lines 76-77: h_page->RLatch()
HeaderRLatch(t) ==
    /\ thr[t].pc = "hrlatch"
    /\ CanRLock(LatchOf(thr[t].h_page))
    /\ ConcStep(t, IndexState,
                [thr[t] EXCEPT !.pc = "probe",
                               !.offset = GetHash(thr[t].key) % num_buckets_],
                table_latch_,
                WithLatch(rwlatch_, IndexState, thr[t].h_page,
                          RLock(LatchOf(thr[t].h_page))))

\* the block the probe of thread t is at lies in the directory of its header page
InDirectory(t) ==
    thr[t].offset \div BLOCK_ARRAY_SIZE <
        NumBlocks(PageData(IndexState, thr[t].h_page))

\* the block page of the probe of thread t
ProbePageId(t) ==
    GetBlockPageId(PageData(IndexState, thr[t].h_page),
                   thr[t].offset \div BLOCK_ARRAY_SIZE)

\* the locals of thread t once its loop moved on to the next bucket
NextProbe(t) ==
    [thr[t] EXCEPT !.pc = "probe", !.current_page_id = INVALID_PAGE_ID,
                   !.offset = (@ + 1) % num_buckets_, !.i = @ + 1]

\* Insert, lines 121-126 and Remove, lines 174-179: the fetch of the block page
\* and the first wait of WLatch.  A thread whose header page was replaced by
\* another thread's Resize may read block_page_ids_ past next_ind_: what it
\* does from there is not modelled (pc "wild").
ProbeWLatch(t) ==
    /\ thr[t].pc = "probe"
    /\ thr[t].op \in {"Insert", "Remove"}
    /\ IF ~ InDirectory(t)
       THEN ConcStep(t, IndexState, [thr[t] EXCEPT !.pc = "wild"],
                     table_latch_, rwlatch_)
       ELSE /\ CanWEnter(LatchOf(ProbePageId(t)))
            /\ ConcStep(t, PoolFetchPage(IndexState, ProbePageId(t)),
                        [thr[t] EXCEPT !.pc = "wwait",
                                       !.current_page_id = ProbePageId(t)],
                        table_latch_,
                        WithLatch(rwlatch_, IndexState, ProbePageId(t),
                                  WEnter(LatchOf(ProbePageId(t)))))

\* Insert, lines 157-159 and Remove, lines 207-209: the loop is over
ProbeOver(t, st, latches) ==
    ConcStep(t, PoolUnpinPage(st, st.header_page_id, TRUE),
             Returned(t, FALSE, << >>), RUnlock(table_latch_), latches)

\* Insert, lines 127-155, with the block page latched: the reads of the slot
\* (the test for a duplicate and the test of the occupied bit in
\* HashTableBlockPage::Insert, line 60) and what follows when no write does
InsertAtSlot(t) ==
    LET cur  == thr[t].current_page_id
        slot == thr[t].offset % BLOCK_ARRAY_SIZE
        img  == PageData(IndexState, cur)
        unl  == WithLatch(rwlatch_, IndexState, cur, WUnlock(LatchOf(cur)))
    IN  IF /\ IsReadable(img, slot)
           /\ KeyAt(img, slot) = thr[t].key
           /\ ValueAt(img, slot) = thr[t].value
        THEN ConcStep(t, PoolUnpinPage(PoolUnpinPage(IndexState, cur, FALSE),
                                       header_page_id_, FALSE),
                      Returned(t, FALSE, << >>), RUnlock(table_latch_), unl)
        ELSE IF BlockInsertResult(img, slot)
        THEN ConcStep(t, IndexState, [thr[t] EXCEPT !.pc = "bwrite"],
                      table_latch_, rwlatch_)
        ELSE IF thr[t].i + 1 < num_buckets_
        THEN ConcStep(t, PoolUnpinPage(IndexState, cur, TRUE), NextProbe(t),
                      table_latch_, unl)
        ELSE ProbeOver(t, PoolUnpinPage(IndexState, cur, TRUE), unl)

\* Remove, lines 180-205, with the block page latched: the reads of the slot
\* and what follows when no write does
RemoveAtSlot(t) ==
    LET cur  == thr[t].current_page_id
        slot == thr[t].offset % BLOCK_ARRAY_SIZE
        img  == PageData(IndexState, cur)
        unl  == WithLatch(rwlatch_, IndexState, cur, WUnlock(LatchOf(cur)))
    IN  IF ~ IsOccupied(img, slot)
        THEN ProbeOver(t, PoolUnpinPage(IndexState, cur, FALSE), unl)
        ELSE IF /\ IsReadable(img, slot)
                /\ KeyAt(img, slot) = thr[t].key
                /\ ValueAt(img, slot) = thr[t].value
        THEN ConcStep(t, IndexState, [thr[t] EXCEPT !.pc = "bwrite"],
                      table_latch_, rwlatch_)
        ELSE IF thr[t].i + 1 < num_buckets_
        THEN ConcStep(t, PoolUnpinPage(IndexState, cur, FALSE), NextProbe(t),
                      table_latch_, unl)
        ELSE ProbeOver(t, PoolUnpinPage(IndexState, cur, FALSE), unl)

\* the second wait of WLatch on the block page, and the code that follows it
WWait(t) ==
    /\ thr[t].pc = "wwait"
    /\ CanWLock(LatchOf(thr[t].current_page_id))
    /\ IF thr[t].op = "Insert" THEN InsertAtSlot(t) ELSE RemoveAtSlot(t)

\* HashTableBlockPage::Insert, lines 65-71: the writes of a slot that passed
\* the test of line 60
BlockInsertWrite(img, bucket_ind, key, value) ==
    [img EXCEPT !.array[bucket_ind] = << key, value >>,
                !.occupied[bucket_ind] = TRUE,
                !.readable[bucket_ind] = TRUE]

\* the write of the slot: HashTableBlockPage::Insert, lines 65-71, or
\* HashTableBlockPage::Remove
BlockWrite(t) ==
    /\ thr[t].pc = "bwrite"
    /\ LET cur  == thr[t].current_page_id
           slot == thr[t].offset % BLOCK_ARRAY_SIZE
           img  == PageData(IndexState, cur)
       IN  ConcStep(t, SetPageData(IndexState, cur,
                                   IF thr[t].op = "Insert"
                                   THEN BlockInsertWrite(img, slot, thr[t].key,
                                                         thr[t].value)
                                   ELSE BlockRemove(img, slot)),
                    [thr[t] EXCEPT !.pc = "hlatch"], table_latch_, rwlatch_)

\* Insert, line 140 and Remove, line 189: the first wait of h_page->WLatch()
HLatch(t) ==
    /\ thr[t].pc = "hlatch"
    /\ CanWEnter(LatchOf(thr[t].h_page))
    /\ ConcStep(t, IndexState, [thr[t] EXCEPT !.pc = "hwait"], table_latch_,
                WithLatch(rwlatch_, IndexState, thr[t].h_page,
                          WEnter(LatchOf(thr[t].h_page))))

\* Insert, lines 140-149 and Remove, lines 189-198: the second wait of
\* h_page->WLatch(), the new size_, and the return of true
HWait(t) ==
    /\ thr[t].pc = "hwait"
    /\ CanWLock(LatchOf(thr[t].h_page))
    /\ LET cur == thr[t].current_page_id
           s1  == [IndexState EXCEPT
                     !.size = IF thr[t].op = "Insert" THEN @ + 1 ELSE RemoveSize(@)]
           s2  == SetPageData(s1, thr[t].h_page,
                              SetSize(PageData(s1, thr[t].h_page), s1.size))
           l1  == WithLatch(rwlatch_, IndexState, thr[t].h_page,
                            WUnlock(LatchOf(thr[t].h_page)))
           l2  == WithLatch(l1, IndexState, cur, WUnlock(l1[page_table_[cur]]))
       IN  ConcStep(t, PoolUnpinPage(PoolUnpinPage(s2, cur, TRUE),
                                     header_page_id_, TRUE),
                    Returned(t, TRUE, << >>), RUnlock(table_latch_), l2)

\* GetValue, lines 79-98: one turn of the loop, the block page read-latched from
\* line 85 to line 87 or 95; and lines 100-103 when the loop is over
GetValueAtSlot(t) ==
    /\ thr[t].pc = "probe"
    /\ thr[t].op = "GetValue"
    /\ IF ~ InDirectory(t)
       THEN ConcStep(t, IndexState, [thr[t] EXCEPT !.pc = "wild"],
                     table_latch_, rwlatch_)
       ELSE /\ CanRLock(LatchOf(ProbePageId(t)))
            /\ LET slot   == thr[t].offset % BLOCK_ARRAY_SIZE
                   img    == PageData(IndexState, ProbePageId(t))
                   result == IF /\ IsOccupied(img, slot)
                                /\ IsReadable(img, slot)
                                /\ KeyAt(img, slot) = thr[t].key
                             THEN Append(thr[t].result, ValueAt(img, slot))
                             ELSE thr[t].result
                   s1     == PoolUnpinPage(PoolFetchPage(IndexState, ProbePageId(t)),
                                           ProbePageId(t), FALSE)
               IN  IF IsOccupied(img, slot) /\ thr[t].i + 1 < num_buckets_
                   THEN ConcStep(t, s1, [NextProbe(t) EXCEPT !.result = result],
                                 table_latch_, rwlatch_)
                   ELSE ConcStep(t, PoolUnpinPage(s1, header_page_id_, FALSE),
                                 Returned(t, TRUE, result), RUnlock(table_latch_),
                                 WithLatch(rwlatch_, IndexState, thr[t].h_page,
                                           RUnlock(LatchOf(thr[t].h_page))))

NextConc ==
    \/ \E t \in Threads, key \in Keys, value \in Values : CallInsert(t, key, value)
    \/ \E t \in Threads, key \in Keys, value \in Values : CallRemove(t, key, value)
    \/ \E t \in Threads, key \in Keys : CallGetValue(t, key)
    \/ \E t \in Threads : InsertCheck(t)
    \/ \E t \in Threads : InsertResize(t)
    \/ \E t \in Threads : TableRLock(t)
    \/ \E t \in Threads : HeaderRLatch(t)
    \/ \E t \in Threads : ProbeWLatch(t)
    \/ \E t \in Threads : WWait(t)
    \/ \E t \in Threads : BlockWrite(t)
    \/ \E t \in Threads : HLatch(t)
    \/ \E t \in Threads : HWait(t)
    \/ \E t \in Threads : GetValueAtSlot(t)

\* Two threads, each with one call of Insert, Remove or GetValue on one index
SpecConc == InitConc /\ [][NextConc]_vars

\* thread t is in a call that has not returned
Unfinished(t) == thr[t].pc \notin {"idle", "done"}

\* thread t waits for a latch that it cannot get in this state
Blocked(t) ==
    \/ /\ thr[t].pc = "rlock"
       /\ ~ CanRLock(table_latch_)
    \/ /\ thr[t].pc = "hrlatch"
       /\ ~ CanRLock(LatchOf(thr[t].h_page))
    \/ /\ thr[t].pc = "probe"
       /\ InDirectory(t)
       /\ LatchOf(ProbePageId(t)).writer_entered
    \/ /\ thr[t].pc = "wwait"
       /\ ~ CanWLock(LatchOf(thr[t].current_page_id))
    \/ /\ thr[t].pc = "hlatch"
       /\ ~ CanWEnter(LatchOf(thr[t].h_page))
    \/ /\ thr[t].pc = "hwait"
       /\ ~ CanWLock(LatchOf(thr[t].h_page))

\* C26: the index never deadlocks: for every interleaving of concurrent Insert,
\* Remove and GetValue calls on one index, no state is reached in which every
\* unfinished thread is blocked waiting for a latch.
C26_NoDeadlock ==
    ~ (/\ \E t \in Threads : Unfinished(t)
       /\ \A t \in Threads : Unfinished(t) => Blocked(t))

\* every thread made its call and the call returned
AllDone == \A t \in Threads : thr[t].pc = "done"

\* the pair of the call of thread t
PairOf(t) == << thr[t].key, thr[t].value >>

\* the pairs stored before the threads started
Prefilled(st) == {pair \in Stored(st) : pair[2] = PrefillValue}

\* no Resize replaced the directory the constructor made, and it has a bucket
\* for every pair stored before the threads started and one for every thread
EnoughBuckets ==
    /\ header_page_id_ = 0
    /\ num_buckets_ >= Cardinality(Prefilled(IndexState)) + Cardinality(Threads)

C28_SamePairOnce ==
    (/\ AllDone
     /\ \A t \in Threads : thr[t].op = "Insert"
     /\ \A t, u \in Threads : PairOf(t) = PairOf(u)) =>
        /\ Cardinality({t \in Threads : thr[t].ret}) = 1
        /\ \A t \in Threads :
             LET result == GetValueOn(IndexState, thr[t].key).result IN
             Cardinality({i \in 1 .. Len(result) : result[i] = thr[t].value}) = 1

\* ------------------------------------------------------------ restart
\* The index is flushed, a new BufferPoolManager is made over the same
\* DiskManager, and the index is reopened through it (HashTableTest.RestartTest,
\* lines 186-189).  The pool has a frame for every page it is asked for.

\* BufferPoolManager::FlushAllPages() on the pool of st, then a new
\* BufferPoolManager of pool_size frames over the same DiskManager, whose
\* next_page_id_ goes on counting
NewPoolOn(st, pool_size) ==
    [FreshIndexState(pool_size) EXCEPT
        !.disk = FlushAllDisk(st.disk, st.page_table, st.pages),
        !.next_page_id = st.next_page_id]

\* LinearProbeHashTable::LinearProbeHashTable(name, bpm, comparator, num_buckets,
\* hash_fn, header_page_id), lines 50-65
Reopen(st, num_buckets, header_page_id) ==
    LET s1 == [st EXCEPT !.num_buckets = num_buckets, !.size = 0,
                         !.header_page_id = header_page_id]
        s2 == PoolFetchPage(s1, header_page_id)
        s3 == [s2 EXCEPT !.num_blocks = NumBlocks(PageData(s2, header_page_id))]
    IN  PoolUnpinPage(s3, header_page_id, TRUE)

\* a caller that reopens every index with one bucket
ReopenNumBucketsOne(st) == 1

\* the num_buckets the caller passes to the reopening constructor: the number
\* of buckets the index had when it was flushed
ReopenNumBuckets(st) == st.num_buckets

\* the index of st flushed and reopened from its header page through a new pool
RestartOn(st) ==
    Reopen(NewPoolOn(st, pool_size_), ReopenNumBuckets(st), st.header_page_id)

\* the block pages of the current directory that are in no frame
NonResident(st) ==
    {page_id \in BlockPageIds(st) : page_id \notin DOMAIN st.page_table}

\* the pool has a free frame for every page the next call fetches or makes,
\* and the disk a page id for every page a Resize makes
FramesEnabled(resizes) ==
    LET made == IF resizes THEN 2 + (2 * size_ - 1) \div BLOCK_ARRAY_SIZE ELSE 0 IN
    /\ Len(free_list_) >= Cardinality(NonResident(IndexState)) + made
    /\ next_page_id_ + made <= IndexPoolSize + 1
    /\ resizes => 2 * size_ <= MaxBuckets

RestartInsert(key, value) ==
    /\ FramesEnabled(size_ = num_buckets_)
    /\ BecomeIndexState(InsertOn(IndexState, key, value).st)

\* size_ is a size_t: a Remove on a reopened index takes it below 0, where the
\* code holds size_ + 2^64.  It is compared with num_buckets_ for equality only.
RestartRemove(key, value) ==
    /\ FramesEnabled(FALSE)
    /\ BecomeIndexState(RemoveOn(IndexState, key, value).st)

RestartGetValue(key) ==
    /\ FramesEnabled(FALSE)
    /\ BecomeIndexState(GetValueOn(IndexState, key).st)

\* FlushAllPages, the new pool and the reopened index take the place of the old
Restart ==
    /\ header_page_id_ \in DOMAIN page_table_
    /\ BecomeIndexState(RestartOn(IndexState))

NextRestart ==
    \/ \E key \in Keys, value \in ResizeValues : RestartInsert(key, value)
    \/ \E key \in Keys, value \in ResizeValues : RestartRemove(key, value)
    \/ \E key \in Keys : RestartGetValue(key)
    \/ Restart

\* Insert, Remove and GetValue calls of one thread, and restarts
SpecRestart == InitIndexPool(ResizePoolSize) /\ [][NextRestart]_vars

\* the pairs GetValue finds in the index of st
LivePairs(st) ==
    {pair \in Keys \X Values :
        pair[2] \in ValuesOf(GetValueOn(st, pair[1]).result)}

C30_ReopenCounters ==
    FramesEnabled(FALSE) =>
        LET r == RestartOn(IndexState) IN
        /\ r.size = Cardinality(LivePairs(IndexState))
        /\ r.num_blocks = NumBlocks(PageData(r, r.header_page_id))

\* ------------------------------------------------------------ further claims on the pool
\* C31: FetchPage(page_id) of a page that is not resident and gets a frame (from
\* the free list first, from the replacer only when the free list is empty)
\* installs page_id -> frame in the page table and leaves the frame with
\* page_id_ = page_id, pin_count_ = 1, is_dirty_ = false and the data the disk
\* holds for page_id, whatever the dirty bit of the page the frame held before.
C31_FetchInstallsClean ==
    [][\A page_id \in PageIds :
          (/\ FetchPageImpl(page_id)
           /\ page_id \notin DOMAIN page_table_
           /\ FetchPageResult(page_id) # NullPtr) =>
              LET fid == FetchPageResult(page_id) IN
              /\ fid = IF free_list_ # << >> THEN Back(free_list_) ELSE Victim.frame_id
              /\ page_id \in DOMAIN page_table_' /\ page_table_'[page_id] = fid
              /\ pages_'[fid] = [page_id |-> page_id, pin_count |-> 1,
                                 is_dirty |-> FALSE, data |-> disk'[page_id]]]_vars

\* C32: ClockReplacer::Unpin(frame_id) of a frame that is not in the replacer
\* inserts it with ref = 1, so a frame that has just been unpinned is not the
\* frame the next Victim returns first when the hand reaches it while another
\* frame in the replacer has ref = 0.
C32_UnpinSetsRef ==
    \A f \in Frames :
        ~ InReplacer(f) =>
            LET r == ReplacerUnpin(bits_, sz_, f) IN
            /\ r.bits[f].ref = 1
            /\ (\E g \in Frames \ {f} : InReplacer(g) /\ bits_[g].ref = 0) =>
                 VictimScan(r.bits, hand_, r.sz, 0).frame_id # f

RECURSIVE VictimAdvances(_, _, _)
\* ClockReplacer::Victim, lines 56-73: the number of inc_hand() calls of one
\* call of Victim on the replacer state b with the hand at h
VictimAdvances(b, h, i) ==
    LET n == Cardinality(DOMAIN b) IN
    IF i > 2 * n THEN 0
    ELSE LET h2 == inc_hand(h, n) IN
         IF b[h2].in_replacer = 1 /\ b[h2].ref = 0
         THEN 1
         ELSE IF b[h2].ref = 1
              THEN 1 + VictimAdvances([b EXCEPT ![h2].ref = 0], h2, i + 1)
              ELSE 1 + VictimAdvances(b, h2, i + 1)

\* C33: Victim terminates after advancing the clock hand over at most
\* 2 * pool_size positions in one call, for every replacer state including the
\* empty replacer; Pin and Unpin leave the hand where it is.
C33_VictimBounded ==
    /\ [](VictimAdvances(bits_, hand_, 0) <= 2 * pool_size_)
    /\ [][\A f \in Frames : (ClockPin(f) \/ ClockUnpin(f)) => hand_' = hand_]_vars

\* ------------------------------------------------------------ further claims on the index
\* the pages in the pool that are block pages: those no header page's directory
\* was written into
PoolBlockPageIds(st) ==
    {page_id \in DOMAIN st.page_table : NumBlocks(PageData(st, page_id)) = 0}

\* C34: in every block page and every reachable state, readable[i] implies
\* occupied[i] for every slot i; once occupied[i] is set it is never cleared
\* (Remove clears only readable[i]); and HashTableBlockPage::Insert on a slot
\* whose occupied bit is set returns false without changing the slot or the
\* bitmaps.
C34_OccupiedSticks ==
    /\ [](\A page_id \in PoolBlockPageIds(IndexState), i \in Slots :
            LET img == PageData(IndexState, page_id) IN
            /\ IsReadable(img, i) => IsOccupied(img, i)
            /\ BlockRemove(img, i).occupied = img.occupied
            /\ BlockRemove(img, i).array = img.array
            /\ IsOccupied(img, i) =>
                 \A key \in Keys, value \in Values :
                    /\ ~ BlockInsertResult(img, i)
                    /\ BlockInsert(img, i, key, value) = img)
    /\ [][\A page_id \in PoolBlockPageIds(IndexState), i \in Slots :
            IsOccupied(PageData(IndexState, page_id), i) =>
                /\ page_id \in DOMAIN page_table_'
                /\ IsOccupied(pages_'[page_table_'[page_id]].data, i)]_vars

\* a block page with a slot a Remove left occupied and not readable next to a
\* readable slot, in a directory a Resize made
C34_Witness ==
    /\ header_page_id_ # 0
    /\ \E page_id \in BlockPageIds(IndexState), i, j \in Slots :
         LET img == PageData(IndexState, page_id) IN
         /\ IsOccupied(img, i) /\ ~ IsReadable(img, i)
         /\ IsReadable(img, j)

\* C35: Resize is serialized by the directory latch: it holds table_latch_ in
\* write mode while it changes header_page_id_, num_buckets_ and size_ and
\* rebuilds the table, so a Resize runs only while no Insert, Remove or GetValue
\* holds the latch in read mode.
C35_ResizeSerialized ==
    [][\A t \in Threads :
          InsertResize(t) => table_latch_.reader_count = 0]_vars

\* C36: after Resize completes, the old header page and every old block page
\* have been unpinned and deleted through DeletePage: none of their page ids is
\* in the page table, and their frames are in the free list.
C36_ResizeDeletesOld ==
    \A initial_size \in ObservedSizes :
        ResizeEnabled(initial_size) =>
            LET r   == Resize(IndexState, initial_size)
                old == {header_page_id_} \cup BlockPageIds(IndexState)
            IN  \A page_id \in old :
                   /\ page_id \notin DOMAIN r.page_table
                   /\ \E i \in 1 .. Len(r.free_list) :
                         r.free_list[i] = page_table_[page_id]

\* thread t holds the write latch of its block page: Insert from line 126 to
\* line 146, Remove from line 179 to line 194, once the waits of WLock are over
HoldsBlockLatch(t) ==
    /\ thr[t].op \in {"Insert", "Remove"}
    /\ thr[t].pc \in {"bwrite", "hlatch", "hwait"}
    /\ LatchOf(thr[t].current_page_id).writer_entered

\* C37: latch order of the index: during Insert, Remove and GetValue a thread
\* acquires latches in the order table_latch_, header page latch, block page
\* latch only: it never starts to acquire the header page's latch while it
\* holds a block page's latch.
C37_LatchOrder ==
    [][\A t \in Threads : HLatch(t) => ~ HoldsBlockLatch(t)]_vars

\* the bucket of the slot << block, slot >>
BucketOf(bs) == bs[1] * BLOCK_ARRAY_SIZE + bs[2]

\* the slot << block, slot >> of a bucket
SlotOf(bucket) == << bucket \div BLOCK_ARRAY_SIZE, bucket % BLOCK_ARRAY_SIZE >>

\* the buckets a probe for key passes before it reaches bucket: GetValue lines
\* 77-97, from GetHash(key) % num_buckets_ on, one bucket further each turn
ProbePath(st, key, bucket) ==
    LET start == GetHash(key) % st.num_buckets
        turns == (bucket - start + st.num_buckets) % st.num_buckets
    IN  {(start + j) % st.num_buckets : j \in 0 .. (turns - 1)}

C39_TombstonesFree ==
    size_ < num_buckets_ =>
        \A key \in Keys, value \in Values :
            << key, value >> \notin Stored(IndexState) =>
                InsertOn(IndexState, key, value).ret

\* ---------------------------------------------------------------------------
\* ReaderWriterLatch under threads: one latch (table_latch_), every thread calls
\* RLock/RUnlock and WLock/WUnlock in any order. Each method body runs under
\* mutex_, so a body up to its wait is one step; a thread in wait sleeps until
\* a notify on its condition variable (or a spurious wakeup) and then tests the
\* loop condition again.

NumLatchThreads == 3

LatchThreads == 1 .. NumLatchThreads

InitLatch ==
    /\ InitPool(PoolSize)
    /\ thr = [t \in LatchThreads |-> [pc |-> "idle"]]
    /\ header_page_id_ = INVALID_PAGE_ID
    /\ num_buckets_ = 0
    /\ num_blocks_ = 0
    /\ size_ = 0
    /\ table_latch_ = FreeLatch
    /\ rwlatch_ = << >>

\* a thread leaves wait and goes back to the test of its loop
Woken(pc) ==
    CASE pc = "rwait" -> "rwake"
      [] pc = "w1wait" -> "w1wake"
      [] pc = "w2wait" -> "w2wake"
      [] OTHER -> pc

\* the threads in reader_.wait (RLock line 71, WLock line 48)
ReaderWaiters(th) == {t \in LatchThreads : th[t].pc \in {"rwait", "w1wait"}}

\* the threads in writer_.wait (WLock line 52)
WriterWaiters(th) == {t \in LatchThreads : th[t].pc = "w2wait"}

\* reader_.notify_all()
NotifyAllReaders(th) ==
    [t \in LatchThreads |->
        IF t \in ReaderWaiters(th) THEN [th[t] EXCEPT !.pc = Woken(@)] ELSE th[t]]

\* RLock from the test of line 70 on
RLockFrom(t) ==
    IF CanRLock(table_latch_)
    THEN /\ table_latch_' = RLock(table_latch_)
         /\ thr' = [thr EXCEPT ![t].pc = "r"]
    ELSE /\ thr' = [thr EXCEPT ![t].pc = "rwait"]
         /\ UNCHANGED table_latch_

\* WLock from the test of line 51 on, the latch being latch
WLockFrom(t, latch) ==
    /\ table_latch_' = latch
    /\ thr' = [thr EXCEPT ![t].pc = IF CanWLock(latch) THEN "w" ELSE "w2wait"]

\* WLock from the test of line 47 on
WEnterFrom(t) ==
    IF CanWEnter(table_latch_)
    THEN WLockFrom(t, WEnter(table_latch_))
    ELSE /\ thr' = [thr EXCEPT ![t].pc = "w1wait"]
         /\ UNCHANGED table_latch_

LatchRest ==
    UNCHANGED << pool_size_, pages_, page_table_, free_list_, bits_, hand_, sz_,
                 disk, next_page_id_, reported, header_page_id_, num_buckets_,
                 num_blocks_, size_, rwlatch_ >>

\* a thread calls RLock()
LatchRLock(t) == thr[t].pc = "idle" /\ RLockFrom(t) /\ LatchRest

\* a thread woken in RLock tests line 70 again
LatchRRetry(t) == thr[t].pc = "rwake" /\ RLockFrom(t) /\ LatchRest

\* a thread calls WLock()
LatchWLock(t) == thr[t].pc = "idle" /\ WEnterFrom(t) /\ LatchRest

\* a thread woken in the first loop of WLock tests line 47 again
LatchWEnterRetry(t) == thr[t].pc = "w1wake" /\ WEnterFrom(t) /\ LatchRest

\* a thread woken in the second loop of WLock tests line 51 again
LatchWRetry(t) == thr[t].pc = "w2wake" /\ WLockFrom(t, table_latch_) /\ LatchRest

\* a reader calls RUnlock()
LatchRUnlock(t) ==
    /\ thr[t].pc = "r"
    /\ LET latch   == RUnlock(table_latch_)
           th      == [thr EXCEPT ![t].pc = "idle"]
           waiters == IF latch.writer_entered
                      THEN IF latch.reader_count = 0 THEN WriterWaiters(th) ELSE {}
                      ELSE IF latch.reader_count = MAX_READERS_ - 1
                           THEN ReaderWaiters(th) ELSE {}
       IN  /\ table_latch_' = latch
           /\ IF waiters = {}
              THEN thr' = th
              ELSE \E u \in waiters : thr' = [th EXCEPT ![u].pc = Woken(@)]
    /\ LatchRest

\* the writer calls WUnlock()
LatchWUnlock(t) ==
    /\ thr[t].pc = "w"
    /\ table_latch_' = WUnlock(table_latch_)
    /\ thr' = NotifyAllReaders([thr EXCEPT ![t].pc = "idle"])
    /\ LatchRest

\* std::condition_variable::wait returns without a notify
LatchSpuriousWakeup(t) ==
    /\ thr[t].pc \in {"rwait", "w1wait", "w2wait"}
    /\ thr' = [thr EXCEPT ![t].pc = Woken(@)]
    /\ UNCHANGED table_latch_
    /\ LatchRest

NextLatch ==
    \E t \in LatchThreads :
        \/ LatchRLock(t)
        \/ LatchRRetry(t)
        \/ LatchWLock(t)
        \/ LatchWEnterRetry(t)
        \/ LatchWRetry(t)
        \/ LatchRUnlock(t)
        \/ LatchWUnlock(t)
        \/ LatchSpuriousWakeup(t)

\* threads on one latch, any interleaving
SpecLatch == InitLatch /\ [][NextLatch]_vars

\* a woken thread runs again and a holder releases; nothing makes an idle
\* thread call, and no wakeup comes without a notify
LatchFairness ==
    \A t \in LatchThreads :
        /\ WF_vars(LatchRRetry(t))
        /\ WF_vars(LatchWEnterRetry(t))
        /\ WF_vars(LatchWRetry(t))
        /\ WF_vars(LatchRUnlock(t))
        /\ WF_vars(LatchWUnlock(t))

SpecLatchFair == SpecLatch /\ LatchFairness

\* the threads that hold the latch in read mode, in write mode
LatchReaders == {t \in LatchThreads : thr[t].pc = "r"}
LatchWriters == {t \in LatchThreads : thr[t].pc = "w"}
\* the thread that set writer_entered_ and waits for the readers to leave
LatchEntered == {t \in LatchThreads : thr[t].pc \in {"w2wait", "w2wake"}}

\* the threads inside WLock that do not hold the latch yet
LatchInWLock ==
    {t \in LatchThreads : thr[t].pc \in {"w1wait", "w1wake", "w2wait", "w2wake"}}

\* C40: ReaderWriterLatch gives mutual exclusion: no thread holds the latch in
\* write mode while another holds it in read or write mode, no thread becomes
\* a reader while some thread waits in WLock, and every thread waiting in WLock
\* acquires the latch.
C40_WriterNotOvertaken ==
    /\ [](\A t \in LatchWriters : LatchReaders = {} /\ LatchWriters = {t})
    /\ [][LatchInWLock # {} => LatchReaders' \subseteq LatchReaders]_vars
    /\ \A t \in LatchThreads : (t \in LatchInWLock) ~> (thr[t].pc = "w")

\* C40 as amended: a thread that holds the latch in write mode is the only
\* holder, readers share it (reader_count_ counts them), no thread becomes a
\* reader while a writer that set writer_entered_ waits for the readers, and
\* that writer acquires the latch once the readers released; a thread waiting
\* behind another writer is woken when that writer unlocks.
C40_MutualExclusion ==
    /\ [](/\ \A t \in LatchWriters : LatchReaders = {} /\ LatchWriters = {t}
          /\ table_latch_.reader_count = Cardinality(LatchReaders)
          /\ table_latch_.writer_entered = (LatchWriters \cup LatchEntered # {})
          /\ Cardinality(LatchWriters \cup LatchEntered) <= 1)
    /\ [][LatchEntered # {} => LatchReaders' \subseteq LatchReaders]_vars
    /\ \A t \in LatchThreads :
          /\ (t \in LatchEntered) ~> (thr[t].pc = "w")
          /\ (thr[t].pc = "w1wait") ~> (thr[t].pc # "w1wait")

\* two readers hold the latch and a writer that entered waits for them
C40_Witness ==
    /\ Cardinality(LatchReaders) >= 2
    /\ \E t \in LatchThreads : thr[t].pc = "w2wait"

====
